---- MODULE Spec2Model ----
(***************************************************************************)
(* A model of extensions/custom_analysis.py (class CustomAnalyzer): the    *)
(* once-per-day analysis job.  The state is the cache file                 *)
(* output/analysis/custom_analysis.json, today's two store files           *)
(* output/news/<today>.db and output/rss/<today>.db, the wall clock (as a  *)
(* calendar day) and, for every invocation of push_analysis() in flight,   *)
(* its position and its local variables.                                   *)
(***************************************************************************)
EXTENDS Integers, Sequences, FiniteSets, TLC

\* ------------------------------------------------------------------ bounds

\* Invocations of push_analysis() started in one behaviour.
MaxRuns == 2
\* The last calendar day the clock reaches (it starts on day 1; day 0 is "yesterday").
MaxDay == 2

\* content[:100] at line 207
ContentLimit == 100

\* The rows of the largest table a store file holds.
ManyRows == 150

\* The processes that may run the job (python extensions/custom_analysis.py):
\* the scheduled one and a second one started by hand.
Procs == {"scheduled", "manual"}
Scheduled == "scheduled"
Days == 0..MaxDay

\* ------------------------------------------------------------- Python values

\* Python's None, and an optional value as a sequence of length 0 or 1.
None == <<>>
Some(v) == <<v>>
IsNone(o) == Len(o) = 0
Val(o) == o[1]

\* A character is a string naming it; a text (Python str) is a sequence of
\* characters (a fixed fragment of text may stand as one element).
QuoteCh == "\""
BackslashCh == "\\"
NewlineCh == "NL"

\* What AIAnalyzer.analyze may return as result.core_trends: the empty text,
\* a plain character, and the characters JSON escapes, alone and after a
\* backslash.
EngineTexts ==
    { <<>>, <<"n">>, <<QuoteCh>>, <<NewlineCh>>,
      <<BackslashCh, "n">>, <<BackslashCh, QuoteCh>> }

\* sep.join(parts[lo..hi]), by halves.
RECURSIVE JoinRange(_, _, _, _)
JoinRange(sep, parts, lo, hi) ==
    IF lo > hi THEN <<>>
    ELSE IF lo = hi THEN parts[lo]
    ELSE LET mid == (lo + hi) \div 2
         IN  JoinRange(sep, parts, lo, mid) \o sep
                 \o JoinRange(sep, parts, mid + 1, hi)

\* sep.join(parts)
Join(sep, parts) == JoinRange(sep, parts, 1, Len(parts))

\* A slice that keeps the last n elements instead of the first.
Prefix_tail(seq, n) ==
    SubSeq(seq, IF Len(seq) < n THEN 1 ELSE Len(seq) - n + 1, Len(seq))

\* seq[:n]
Prefix(seq, n) == SubSeq(seq, 1, IF Len(seq) < n THEN Len(seq) ELSE n)

\* ------------------------------------------------------------------- JSON

\* json.dump(..., ensure_ascii=False) of one str: the characters between the
\* quotes.  A quote, a backslash and a newline are escaped; every other
\* character (non-ASCII included) is written as it is.
EscapeChar(c) ==
    IF c = QuoteCh THEN <<BackslashCh, QuoteCh>>
    ELSE IF c = BackslashCh THEN <<BackslashCh, BackslashCh>>
    ELSE IF c = NewlineCh THEN <<BackslashCh, "n">>
    ELSE <<c>>

RECURSIVE json_dump_str(_)
json_dump_str(text) ==
    IF text = <<>> THEN <<>>
    ELSE EscapeChar(Head(text)) \o json_dump_str(Tail(text))

\* json.load of the characters between the quotes of one JSON string:
\* [ok |-> TRUE, text |-> ...] or [ok |-> FALSE] (JSONDecodeError).
RECURSIVE json_load_str(_)
json_load_str(enc) ==
    IF enc = <<>> THEN [ok |-> TRUE, text |-> <<>>]
    ELSE IF Head(enc) = QuoteCh \/ Head(enc) = NewlineCh
         THEN [ok |-> FALSE, text |-> <<>>]
    ELSE IF Head(enc) = BackslashCh
         THEN IF Len(enc) < 2 THEN [ok |-> FALSE, text |-> <<>>]
              ELSE LET e == enc[2]
                       rest == json_load_str(SubSeq(enc, 3, Len(enc)))
                       c == IF e = "n" THEN NewlineCh ELSE e
                   IN  IF e \in {QuoteCh, BackslashCh, "n"} /\ rest.ok
                       THEN [ok |-> TRUE, text |-> <<c>> \o rest.text]
                       ELSE [ok |-> FALSE, text |-> <<>>]
    ELSE LET rest == json_load_str(Tail(enc))
         IN  IF rest.ok THEN [ok |-> TRUE, text |-> <<Head(enc)>> \o rest.text]
             ELSE [ok |-> FALSE, text |-> <<>>]

\* A JSON document as stored: a string (its escaped characters), an object
\* (its members, each a JSON value), or another value (array, number, null).
JStr(enc) == [t |-> "str", enc |-> enc]
JObj(members) == [t |-> "obj", m |-> members]
JOther == [t |-> "other"]
JNull == [t |-> "null"]

\* The Python value json.load builds: str, dict, None or another object.
PyStr(text) == [t |-> "str", s |-> text]
PyDict(items) == [t |-> "dict", d |-> items]
PyOther == [t |-> "other"]
PyNone == [t |-> "None"]

EmptyDict == [k \in {} |-> PyNone]

\* dict.get(key, default)
DictGet(d, key, default) == IF key \in DOMAIN d THEN d[key] ELSE default

\* bool(v): the empty str, the empty dict and None are false.
Truthy(v) ==
    IF v.t = "str" THEN v.s # <<>>
    ELSE IF v.t = "dict" THEN DOMAIN v.d # {}
    ELSE IF v.t = "None" THEN FALSE
    ELSE TRUE

\* json.dump(value, f, ensure_ascii=False, indent=2): the document written.
RECURSIVE json_dump(_)
json_dump(v) ==
    IF v.t = "str" THEN JStr(json_dump_str(v.s))
    ELSE IF v.t = "dict" THEN JObj([k \in DOMAIN v.d |-> json_dump(v.d[k])])
    ELSE IF v.t = "None" THEN JNull
    ELSE JOther

\* json.load(f) of a document: [ok |-> TRUE, v |-> value] or [ok |-> FALSE]
\* (json.JSONDecodeError).
RECURSIVE json_load(_)
json_load(doc) ==
    IF doc.t = "str"
    THEN LET r == json_load_str(doc.enc)
         IN  IF r.ok THEN [ok |-> TRUE, v |-> PyStr(r.text)]
             ELSE [ok |-> FALSE, v |-> PyNone]
    ELSE IF doc.t = "obj"
    THEN LET dec == [k \in DOMAIN doc.m |-> json_load(doc.m[k])]
         IN  IF \A k \in DOMAIN doc.m : dec[k].ok
             THEN [ok |-> TRUE, v |-> PyDict([k \in DOMAIN doc.m |-> dec[k].v])]
             ELSE [ok |-> FALSE, v |-> PyNone]
    ELSE IF doc.t = "null" THEN [ok |-> TRUE, v |-> PyNone]
    ELSE [ok |-> TRUE, v |-> PyOther]

\* ------------------------------------------------------------- the clock

\* The date part "YYYY-MM-DD" of day d, as one indivisible fragment.
DateTok(d) == "D" \o ToString(d)
\* The time part "THH:MM:SS.ffffff".
TimeTok == "T"

\* datetime.datetime.now().isoformat() on day d
isoformat(d) == <<DateTok(d), TimeTok>>

\* datetime.datetime.fromisoformat(text).date(): a date alone or a date and a
\* time parse; anything else raises ValueError.
fromisoformat(text) ==
    IF /\ Len(text) \in {1, 2}
       /\ \E d \in Days : DateTok(d) = text[1]
       /\ Len(text) = 2 => text[2] = TimeTok
    THEN [ok |-> TRUE, day |-> CHOOSE d \in Days : DateTok(d) = text[1]]
    ELSE [ok |-> FALSE, day |-> 0]

\* datetime.datetime.now().strftime("%Y-%m-%d %H:%M") / strftime("%Y-%m-%d")
strftime(d) == <<DateTok(d)>>

\* --------------------------------------------------------- the cache file

\* self.analysis_file: absent, bytes that are no JSON document (an empty or
\* partly written file included), or a JSON document.
NoFile == [kind |-> "missing"]
\* `size` characters that are no JSON document.
Garbled(size) == [kind |-> "bytes", size |-> size]
\* The file as open(..., 'w') leaves it: empty.
InvalidBytes == Garbled(0)
JsonFile(doc) == [kind |-> "json", doc |-> doc]

\* The number of characters of a document as json.dump writes it (the
\* punctuation of an object or a string counted as two characters, member
\* names left out: two records of lines 244-249 differ in their text only).
RECURSIVE DocSize(_)
RECURSIVE MembersSize(_, _)
MembersSize(m, keys) ==
    IF keys = {} THEN 0
    ELSE LET k == CHOOSE x \in keys : TRUE
         IN  DocSize(m[k]) + MembersSize(m, keys \ {k})
DocSize(doc) ==
    IF doc.t = "str" THEN Len(doc.enc) + 2
    ELSE IF doc.t = "obj" THEN MembersSize(doc.m, DOMAIN doc.m) + 2
    ELSE 4

FileSize(file) ==
    IF file.kind = "missing" THEN 0
    ELSE IF file.kind = "bytes" THEN file.size
    ELSE DocSize(file.doc)

\* json.dump(..., f) and the close of f (line 252) on a file opened with 'w':
\* the document is written from position 0 of the file as it is by then.  A
\* file another process has written to since this one's open keeps what lies
\* beyond the end of the new document, and document and rest are no JSON.
WriteFromStart(file, doc) ==
    IF FileSize(file) <= DocSize(doc) THEN JsonFile(doc)
    ELSE Garbled(FileSize(file))

\* open(self.analysis_file) and json.load(f): the value, or an exception.
ReadCache(file) ==
    IF file.kind = "json" THEN json_load(file.doc)
    ELSE [ok |-> FALSE, v |-> PyNone]

\* The day of the record a cache file holds: -1 when it holds none that parses.
StampDayOf(file) ==
    LET data == ReadCache(file)
    IN  IF data.ok /\ data.v.t = "dict" /\ "last_analysis" \in DOMAIN data.v.d
           /\ data.v.d["last_analysis"].t = "str"
           /\ fromisoformat(data.v.d["last_analysis"].s).ok
        THEN fromisoformat(data.v.d["last_analysis"].s).day
        ELSE -1

\* The gate with last_date left a datetime (no .date()): it never equals
\* today's date.
has_analyzed_today_nodate(file, today) == FALSE

\* The gate without the comparison of the dates: any record that parses counts.
has_analyzed_today_anyday(file, today) == StampDayOf(file) >= 0

\* A gate that fails closed: a file it cannot read counts as analysed.
has_analyzed_today_failclosed(file, today) ==
    IF file.kind = "missing" THEN FALSE
    ELSE IF StampDayOf(file) < 0 THEN TRUE
    ELSE StampDayOf(file) = today

\* has_analyzed_today(), lines 40-56, on cache file `file` read on day `today`.
has_analyzed_today(file, today) ==
    IF file.kind = "missing" THEN FALSE
    ELSE LET data == ReadCache(file)
         IN  IF ~data.ok THEN FALSE
             ELSE IF data.v.t # "dict" THEN FALSE
             ELSE LET last_analysis ==
                          DictGet(data.v.d, "last_analysis", PyStr(<<>>))
                  IN  IF ~Truthy(last_analysis) THEN FALSE
                      ELSE IF last_analysis.t # "str" THEN FALSE
                      ELSE LET last_date == fromisoformat(last_analysis.s)
                           IN  IF ~last_date.ok THEN FALSE
                               ELSE last_date.day = today

\* The projection reading only the legacy fields.
AnalysisText_legacy(result) ==
    IF result.t # "dict" THEN [ok |-> FALSE, v |-> PyNone]
    ELSE LET parts == <<DictGet(result.d, "core_trends", PyStr(<<>>)),
                        DictGet(result.d, "sentiment_controversy", PyStr(<<>>)),
                        DictGet(result.d, "outlook_strategy", PyStr(<<>>))>>
         IN  IF \A i \in 1..3 : parts[i].t = "str"
             THEN [ok |-> TRUE,
                   v |-> PyStr(Join(<<NewlineCh, NewlineCh>>,
                                    [i \in 1..3 |-> parts[i].s]))]
             ELSE [ok |-> FALSE, v |-> PyNone]

\* The analysis text generate_standalone_data() takes from a truthy `result`
\* (lines 291-301): [ok |-> FALSE] where the code raises (caught at 310).
AnalysisText(result) ==
    IF result.t # "dict" THEN [ok |-> FALSE, v |-> PyNone]
    ELSE IF "full_analysis" \in DOMAIN result.d
    THEN [ok |-> TRUE, v |-> result.d["full_analysis"]]
    ELSE LET parts == <<DictGet(result.d, "core_trends", PyStr(<<>>)),
                        DictGet(result.d, "sentiment_controversy", PyStr(<<>>)),
                        DictGet(result.d, "outlook_strategy", PyStr(<<>>))>>
         IN  IF \A i \in 1..3 : parts[i].t = "str"
             THEN [ok |-> TRUE,
                   v |-> PyStr(Join(<<NewlineCh, NewlineCh>>,
                                    [i \in 1..3 |-> parts[i].s]))]
             ELSE [ok |-> FALSE, v |-> PyNone]

\* The display payload of lines 279-307.
StandaloneData(analysis_text, today) ==
    [platforms |-> <<[platform_id |-> "custom_analysis",
                      platform_name |-> "custom analysis",
                      titles |-> <<[title |-> analysis_text,
                                    time_display |-> strftime(today),
                                    rank |-> 1]>>]>>,
     rss_feeds |-> <<>>]

\* generate_standalone_data(), lines 264-312: None or Some(payload).
generate_standalone_data(file, today) ==
    IF file.kind = "missing" THEN None
    ELSE LET data == ReadCache(file)
         IN  IF ~data.ok THEN None
             ELSE IF data.v.t # "dict" THEN None
             ELSE LET result == DictGet(data.v.d, "result", PyDict(EmptyDict))
                  IN  IF ~Truthy(result) THEN None
                      ELSE LET text == AnalysisText(result)
                           IN  IF text.ok
                               THEN Some(StandaloneData(text.v, today))
                               ELSE None

\* -------------------------------------------------------- the store files

\* A store file output/{news,rss}/<today>.db: absent, or an SQLite file.
\* `valid` is false for a file SQLite cannot query (the sqlite_master query of
\* lines 74/120 raises).  `tables` maps each table of the file to
\* [columns |-> <<names>>, rows |-> <<row>>], a row mapping columns to values.
NoStore == [exists |-> FALSE, valid |-> FALSE, tables |-> <<>>]
BrokenStore == [exists |-> TRUE, valid |-> FALSE, tables |-> <<>>]
Store(tables) == [exists |-> TRUE, valid |-> TRUE, tables |-> tables]

\* f"{value}": NULL reads as None and formats as "None".
Format(v) == IF v.t = "None" THEN <<"N", "o", "n", "e">> ELSE v.s

Range(seq) == {seq[i] : i \in 1..Len(seq)}

\* Lines 89-101 / 135-147: the lines of one probed table.
TableLines(table, label_col) ==
    IF "title" \in Range(table.columns)
    THEN IF label_col \in Range(table.columns)
         THEN [i \in 1..Len(table.rows) |->
                  <<"[">> \o Format(table.rows[i][label_col]) \o <<"]", " ">>
                          \o Format(table.rows[i]["title"])]
         ELSE [i \in 1..Len(table.rows) |-> Format(table.rows[i]["title"])]
    ELSE <<>>

\* A probe loop without the break of lines 102 / 148: every candidate that
\* can be queried contributes.
RECURSIVE ProbeTables_merge(_, _, _)
ProbeTables_merge(tables, tables_to_try, label_col) ==
    IF tables_to_try = <<>> THEN <<>>
    ELSE (IF Head(tables_to_try) \in DOMAIN tables
          THEN TableLines(tables[Head(tables_to_try)], label_col) ELSE <<>>)
         \o ProbeTables_merge(tables, Tail(tables_to_try), label_col)

\* Lines 82-104 / 128-150: the first candidate whose probe query succeeds is
\* read and ends the loop; a failing probe moves on to the next candidate.
RECURSIVE ProbeTables(_, _, _)
ProbeTables(tables, tables_to_try, label_col) ==
    IF tables_to_try = <<>> THEN <<>>
    ELSE IF Head(tables_to_try) \in DOMAIN tables
    THEN TableLines(tables[Head(tables_to_try)], label_col)
    ELSE ProbeTables(tables, Tail(tables_to_try), label_col)

\* Lines 67-110 / 113-156: the lines one store contributes.
ReadStore(store, tables_to_try, label_col) ==
    IF ~store.exists THEN <<>>
    ELSE IF ~store.valid THEN <<>>
    ELSE ProbeTables(store.tables, tables_to_try, label_col)

NewsTables == <<"news_items", "titles", "news", "items">>
RssTables == <<"rss_items", "items", "titles">>

\* get_today_data(), lines 58-159, on today's two store files.
get_today_data(news_db, rss_db) ==
    ReadStore(news_db, NewsTables, "source_name")
        \o ReadStore(rss_db, RssTables, "feed_name")

\* Store files of the kinds the crawler leaves behind.
Row2(c1, v1, c2, v2) == (c1 :> PyStr(v1)) @@ (c2 :> PyStr(v2))
Row1(c1, v1) == (c1 :> PyStr(v1))

NewsLabelled ==
    Store("news_items" :>
            [columns |-> <<"title", "source_name">>,
             rows |-> <<Row2("title", <<"a">>, "source_name", <<"s">>),
                        Row2("title", <<"b">>, "source_name", <<"s">>)>>])
NewsBare ==
    Store(("items" :>
            [columns |-> <<"title">>, rows |-> <<Row1("title", <<"c">>)>>])
          @@ ("meta" :>
            [columns |-> <<"key">>, rows |-> <<Row1("key", <<"k">>)>>]))
RssLabelled ==
    Store(("rss_items" :>
            [columns |-> <<"title", "feed_name">>,
             rows |-> <<Row2("title", <<"r">>, "feed_name", <<"f">>)>>])
          @@ ("items" :>
            [columns |-> <<"title">>, rows |-> <<Row1("title", <<"x">>)>>]))
RssNoTitle ==
    Store("rss_items" :>
            [columns |-> <<"link">>, rows |-> <<Row1("link", <<"u">>)>>])

\* The (news, rss) files a day can start with.
StorePairs ==
    { <<NoStore, NoStore>>,
      <<NewsLabelled, RssLabelled>>,
      <<BrokenStore, RssNoTitle>> }

\* Cache files an invocation can find: left by an earlier run of this or an
\* older version of the job, or damaged.
Record(members) == JsonFile(JObj(members))
FullResult(text) == JObj("full_analysis" :> JStr(json_dump_str(text)))
LegacyResult ==
    JObj(("core_trends" :> JStr(<<"t">>)) @@ ("outlook_strategy" :> JStr(<<"o">>)))
Stamp(text) == JStr(json_dump_str(text))

InitCaches ==
    { NoFile,
      InvalidBytes,
      JsonFile(JOther),
      Record(("last_analysis" :> Stamp(isoformat(0))) @@ ("result" :> FullResult(<<"y">>))),
      Record(("last_analysis" :> Stamp(isoformat(1))) @@ ("result" :> FullResult(<<"a">>))),
      Record(("last_analysis" :> Stamp(<<DateTok(1)>>)) @@ ("result" :> LegacyResult)),
      Record("result" :> FullResult(<<"a">>)),
      Record(("last_analysis" :> Stamp(<<>>)) @@ ("result" :> JObj(EmptyDict))),
      Record(("last_analysis" :> Stamp(<<"x">>)) @@ ("result" :> JStr(<<"r">>))),
      Record(("last_analysis" :> JOther) @@ ("result" :> JNull)) }

\* ---------------------------------------------------------- collaborators

\* The literal title of the stats structure of lines 223-229.
StatsTitle == <<"analyze hot news">>

\* The user prompt of lines 208-214 around the joined corpus.
UserPrompt(content_str) ==
    <<"Please analyse the following news:", NewlineCh>> \o content_str
        \o <<NewlineCh, "Output the analysis.">>

\* What reaches AIAnalyzer.analyze (lines 219-237): its system_prompt field
\* and its four arguments.
EngineInput(system_prompt) ==
    [system_prompt |-> system_prompt,
     stats |-> <<[word |-> "custom analysis",
                  titles |-> <<[title |-> StatsTitle, source_name |-> "system"]>>]>>,
     report_mode |-> "daily",
     report_type |-> "custom analysis",
     platforms |-> <<"system">>]

\* What AIAnalyzer.analyze can do: raise, or return a result with
\* success false, or with success true and a text in core_trends.
EngineOutcomes ==
    {[raised |-> TRUE, success |-> FALSE, core_trends |-> <<>>],
     [raised |-> FALSE, success |-> FALSE, core_trends |-> <<>>]}
    \cup {[raised |-> FALSE, success |-> TRUE, core_trends |-> t] : t \in EngineTexts}

\* A report that carries the stats handed to the engine.
ReportData_withstats ==
    [stats |-> <<[word |-> "custom analysis"]>>, failed_ids |-> <<>>,
     new_titles |-> [k \in {} |-> <<>>], id_to_name |-> [k \in {} |-> <<>>]]

\* The report_data of lines 332-337.
ReportData ==
    [stats |-> <<>>, failed_ids |-> <<>>, new_titles |-> EmptyDict,
     id_to_name |-> EmptyDict]

\* ------------------------------------------------------------------ state

VARIABLES
    now,          \* the calendar day of datetime.datetime.now()
    cacheFile,    \* self.analysis_file
    newsStore,    \* output/news/<today>.db
    rssStore,     \* output/rss/<today>.db
    pc,           \* per process: where its push_analysis() stands
    frame,        \* per process: the locals of push_analysis()/analyze()
    last,         \* what the invocation that returned last did
    runs,         \* invocations started so far
    engineCallsToday, \* calls of AIAnalyzer.analyze made today
    engineOKToday     \* those that returned success

vars == <<now, cacheFile, newsStore, rssStore, pc, frame, last, runs,
          engineCallsToday, engineOKToday>>

\* The locals of one invocation; the fields below `ret` record what it did.
InitFrame ==
    [gate |-> None,              \* has_analyzed_today()'s return value
     content |-> None,           \* get_today_data()'s return value
     content_str |-> None,
     user_prompt |-> None,
     system_prompt |-> None,
     result |-> None,            \* what AIAnalyzer.analyze did
     record |-> None,            \* the analysis_data analyze() builds
     analysis_data |-> None,     \* analyze()'s return value
     standalone_data |-> None,   \* generate_standalone_data()'s return value
     ret |-> None,               \* push_analysis()'s return value
     startDay |-> 0,             \* the day push_analysis() was entered
     gateDay |-> 0,              \* the day has_analyzed_today() read
     dataDay |-> 0,              \* the day get_today_data() read
     entryFile |-> None,         \* the cache file analyze() found
     engineInput |-> None,       \* what AIAnalyzer.analyze was given
     engineCalls |-> 0,          \* calls of AIAnalyzer.analyze
     engineOK |-> FALSE,         \* one of them returned success
     engineFailed |-> FALSE,     \* one of them raised or returned failure
     stampDay |-> 0,             \* the day written as last_analysis
     srcDay |-> -1,              \* the day of the record projected, -1 if none
     dispatchCalls |-> 0,        \* calls of dispatch_all
     dispatchArgs |-> None,      \* what dispatch_all was given
     dispatchOK |-> FALSE,       \* dispatch_all returned
     raisedAt |-> None]          \* where an exception left push_analysis()

NoLast ==
    [valid |-> FALSE, startDay |-> 0, endDay |-> 0, engineCalls |-> 0,
     engineOK |-> FALSE, engineFailed |-> FALSE, dispatchCalls |-> 0,
     ret |-> None, raised |-> FALSE]

Init ==
    /\ now = 1
    /\ cacheFile \in InitCaches
    /\ \E sp \in StorePairs : newsStore = sp[1] /\ rssStore = sp[2]
    /\ pc = [p \in Procs |-> "idle"]
    /\ frame = [p \in Procs |-> InitFrame]
    /\ last = NoLast
    /\ runs = 0
    /\ engineCallsToday = 0
    /\ engineOKToday = 0

\* ------------------------------------------------------------ operations

\* analyze() without the empty-corpus return.
AfterCollect_nocheck(content) == "setup"

\* Lines 170-172: an empty corpus ends analyze() with None.
AfterCollect(content) == IF content = <<>> THEN "project" ELSE "setup"

\* analyze() committing whatever the engine returned, success or not.
AfterCall_nosuccess(outcome) == IF ~outcome.raised THEN "commit" ELSE "project"

\* Lines 242-262: only a returned result with success set is committed; a
\* failed result (256-258) and an exception (259-262) end analyze() with None.
AfterCall(outcome) ==
    IF ~outcome.raised /\ outcome.success THEN "commit" ELSE "project"

\* Lines 244-249: the record analyze() builds on day `today`.
AnalysisData(core_trends, today) ==
    PyDict(("last_analysis" :> PyStr(isoformat(today)))
           @@ ("result" :> PyDict("full_analysis" :> PyStr(core_trends))))

\* push_analysis() with the payload test inverted.
AfterProject_inverted(standalone_data) ==
    IF IsNone(standalone_data) THEN "mkdisp" ELSE "done"

\* Lines 324-326: push_analysis() gives up without a payload.
AfterProject(standalone_data) ==
    IF IsNone(standalone_data) THEN "done" ELSE "mkdisp"

\* push_analysis() returning True from the except branch too.
DispatchReturn_always(returned) == TRUE

\* Lines 347-351: True when dispatch_all returned, False when it raised.
DispatchReturn(returned) == returned

\* Line 314: push_analysis() is entered.
Enter(p) ==
    /\ pc[p] = "idle"
    /\ runs < MaxRuns
    /\ pc' = [pc EXCEPT ![p] = "gate"]
    /\ frame' = [frame EXCEPT ![p] = [InitFrame EXCEPT !.startDay = now]]
    /\ runs' = runs + 1
    /\ UNCHANGED <<now, cacheFile, newsStore, rssStore, last, engineCallsToday,
                   engineOKToday>>

\* The scheduled job is started while no invocation is running.
Start(p) ==
    /\ p = Scheduled
    /\ \A q \in Procs : pc[q] = "idle"
    /\ Enter(p)

\* A gate that leaves an empty cache file behind when it finds none.
Gate_touch(p) ==
    /\ pc[p] = "gate"
    /\ LET r == has_analyzed_today(cacheFile, now)
       IN  /\ frame' = [frame EXCEPT ![p].gate = Some(r),
                                     ![p].gateDay = now,
                                     ![p].entryFile = Some(cacheFile)]
           /\ pc' = [pc EXCEPT ![p] = IF r THEN "project" ELSE "collect"]
    /\ cacheFile' = IF cacheFile.kind = "missing" THEN InvalidBytes ELSE cacheFile
    /\ UNCHANGED <<now, newsStore, rssStore, last, runs,
                   engineCallsToday, engineOKToday>>

\* Lines 317, 164-166: analyze() asks has_analyzed_today().
Gate(p) ==
    /\ pc[p] = "gate"
    /\ LET r == has_analyzed_today(cacheFile, now)
       IN  /\ frame' = [frame EXCEPT ![p].gate = Some(r),
                                     ![p].gateDay = now,
                                     ![p].entryFile = Some(cacheFile)]
           /\ pc' = [pc EXCEPT ![p] = IF r THEN "project" ELSE "collect"]
    /\ UNCHANGED <<now, cacheFile, newsStore, rssStore, last, runs,
                   engineCallsToday, engineOKToday>>

\* Lines 169-174: get_today_data() and the empty-corpus return.
Collect(p) ==
    /\ pc[p] = "collect"
    /\ LET content == get_today_data(newsStore, rssStore)
       IN  /\ frame' = [frame EXCEPT ![p].content = Some(content),
                                     ![p].dataDay = now]
           /\ pc' = [pc EXCEPT ![p] = AfterCollect(content)]
    /\ UNCHANGED <<now, cacheFile, newsStore, rssStore, last, runs,
                   engineCallsToday, engineOKToday>>

\* Lines 176-214: the engine is constructed, the system prompt is the custom
\* prompt.txt when that file exists and the built-in one otherwise, and the
\* first ContentLimit lines are joined into the user prompt.
Setup(p) ==
    /\ pc[p] = "setup"
    /\ \E system_prompt \in {"custom", "default"} :
         LET content_str ==
                 Join(<<NewlineCh>>, Prefix(Val(frame[p].content), ContentLimit))
         IN  frame' = [frame EXCEPT ![p].system_prompt = Some(system_prompt),
                                    ![p].content_str = Some(content_str),
                                    ![p].user_prompt = Some(UserPrompt(content_str))]
    /\ pc' = [pc EXCEPT ![p] = "call"]
    /\ UNCHANGED <<now, cacheFile, newsStore, rssStore, last, runs,
                   engineCallsToday, engineOKToday>>

\* Lines 217-240 and 256-262: the engine is called.
Call(p) ==
    /\ pc[p] = "call"
    /\ \E outcome \in EngineOutcomes :
         /\ frame' = [frame EXCEPT
                ![p].engineInput = Some(EngineInput(Val(frame[p].system_prompt))),
                ![p].engineCalls = @ + 1,
                ![p].engineOK = ~outcome.raised /\ outcome.success,
                ![p].engineFailed = outcome.raised \/ ~outcome.success,
                ![p].result = Some(outcome)]
         /\ pc' = [pc EXCEPT ![p] = AfterCall(outcome)]
         /\ engineOKToday' = IF ~outcome.raised /\ outcome.success
                             THEN engineOKToday + 1 ELSE engineOKToday
    /\ engineCallsToday' = engineCallsToday + 1
    /\ UNCHANGED <<now, cacheFile, newsStore, rssStore, last, runs>>

\* Lines 244-251: the record is built with the current time and the cache
\* file is opened for writing, which empties it.
CommitOpen(p) ==
    /\ pc[p] = "commit"
    /\ frame' = [frame EXCEPT
           ![p].record = Some(AnalysisData(Val(frame[p].result).core_trends, now)),
           ![p].stampDay = now]
    /\ cacheFile' = InvalidBytes
    /\ pc' = [pc EXCEPT ![p] = "dump"]
    /\ UNCHANGED <<now, newsStore, rssStore, last, runs, engineCallsToday, engineOKToday>>

\* Lines 252-255: the record is written and returned.
CommitDump(p) ==
    /\ pc[p] = "dump"
    /\ cacheFile' = WriteFromStart(cacheFile, json_dump(Val(frame[p].record)))
    /\ frame' = [frame EXCEPT ![p].analysis_data = frame[p].record]
    /\ pc' = [pc EXCEPT ![p] = "project"]
    /\ UNCHANGED <<now, newsStore, rssStore, last, runs, engineCallsToday, engineOKToday>>

\* analyze() has returned: its locals are gone, its return value stays.
AnalyzeReturned(f) ==
    [f EXCEPT !.gate = None, !.content = None, !.content_str = None,
              !.user_prompt = None, !.system_prompt = None, !.result = None,
              !.record = None, !.entryFile = None, !.engineInput = None,
              !.gateDay = 0, !.dataDay = 0, !.stampDay = 0]

\* Lines 318-326: whatever analyze() returned, generate_standalone_data()
\* projects the cache file; without a payload push_analysis() returns False.
Project(p) ==
    /\ pc[p] = "project"
    /\ LET standalone_data == generate_standalone_data(cacheFile, now)
       IN  /\ frame' = [frame EXCEPT
                  ![p] = [AnalyzeReturned(@) EXCEPT
                      !.standalone_data = standalone_data,
                      !.srcDay = IF IsNone(standalone_data) THEN -1
                                 ELSE StampDayOf(cacheFile),
                      !.ret = IF AfterProject(standalone_data) = "done"
                              THEN Some(FALSE) ELSE @]]
           /\ pc' = [pc EXCEPT ![p] = AfterProject(standalone_data)]
    /\ UNCHANGED <<now, cacheFile, newsStore, rssStore, last, runs,
                   engineCallsToday, engineOKToday>>

\* Lines 329-337: the dispatcher and the empty report are made.
MkDispatcher(p) ==
    /\ pc[p] = "mkdisp"
    /\ pc' = [pc EXCEPT ![p] = "dispatch"]
    /\ UNCHANGED <<now, cacheFile, newsStore, rssStore, frame, last, runs,
                   engineCallsToday, engineOKToday>>

\* Lines 340-351: dispatch_all is called; it returns or raises.
Dispatch(p) ==
    /\ pc[p] = "dispatch"
    /\ \E returned \in BOOLEAN :
         frame' = [frame EXCEPT
             ![p].dispatchCalls = @ + 1,
             ![p].dispatchArgs =
                 Some([report_data |-> ReportData,
                       report_type |-> "writing directions",
                       mode |-> "daily",
                       standalone_data |-> frame[p].standalone_data]),
             ![p].dispatchOK = returned,
             ![p].ret = Some(DispatchReturn(returned))]
    /\ pc' = [pc EXCEPT ![p] = "done"]
    /\ UNCHANGED <<now, cacheFile, newsStore, rssStore, last, runs,
                   engineCallsToday, engineOKToday>>

\* What is remembered of an invocation once it is over.
Summary(f, today, raised) ==
    [valid |-> TRUE, startDay |-> f.startDay, endDay |-> today,
     engineCalls |-> f.engineCalls,
     engineOK |-> f.engineOK, engineFailed |-> f.engineFailed,
     dispatchCalls |-> f.dispatchCalls,
     ret |-> f.ret, raised |-> raised]

\* Line 355: push_analysis() is over and the process exits.
Finish(p) ==
    /\ pc[p] \in {"done", "raised"}
    /\ last' = Summary(frame[p], now, pc[p] = "raised")
    /\ pc' = [pc EXCEPT ![p] = "idle"]
    /\ frame' = [frame EXCEPT ![p] = InitFrame]
    /\ UNCHANGED <<now, cacheFile, newsStore, rssStore, runs, engineCallsToday,
                   engineOKToday>>

\* Midnight: the date changes and the store files of the new day are the
\* ones the job finds from now on.
Tick ==
    /\ now < MaxDay
    /\ now' = now + 1
    /\ \E sp \in StorePairs : newsStore' = sp[1] /\ rssStore' = sp[2]
    /\ engineCallsToday' = 0
    /\ engineOKToday' = 0
    /\ UNCHANGED <<cacheFile, pc, frame, last, runs>>

Next ==
    \/ \E p \in Procs :
         \/ Start(p)
         \/ Gate(p)
         \/ Collect(p)
         \/ Setup(p)
         \/ Call(p)
         \/ CommitOpen(p)
         \/ CommitDump(p)
         \/ Project(p)
         \/ MkDispatcher(p)
         \/ Dispatch(p)
         \/ Finish(p)
    \/ Tick

Spec == Init /\ [][Next]_vars

\* ------------------------------------------------- a wider range of files

\* Store files of more kinds: large tables, several candidate tables in one
\* file, a candidate without a title column before one with it, the label
\* column of the other store, rows whose title or label is empty, blank or
\* NULL, a table without rows, and a file without any candidate table.
LabelledRows(n, tag, label_col) ==
    [i \in 1..n |-> Row2("title", <<tag \o ToString(i)>>, label_col, <<"s">>)]
BareRows(n, tag) ==
    [i \in 1..n |-> Row1("title", <<tag \o ToString(i)>>)]

NewsMany ==
    Store("news_items" :>
            [columns |-> <<"id", "title", "source_name">>,
             rows |-> LabelledRows(ManyRows, "n", "source_name")])
NewsShadowed ==
    Store(("titles" :>
            [columns |-> <<"name">>, rows |-> <<Row1("name", <<"k">>)>>])
          @@ ("items" :>
            [columns |-> <<"title">>, rows |-> <<Row1("title", <<"c">>)>>]))
NewsSecond ==
    Store(("news" :>
            [columns |-> <<"title">>, rows |-> BareRows(2, "w")])
          @@ ("items" :>
            [columns |-> <<"title", "source_name">>,
             rows |-> LabelledRows(1, "i", "source_name")]))
NewsFeedLabel ==
    Store("news_items" :>
            [columns |-> <<"title", "feed_name">>,
             rows |-> LabelledRows(2, "f", "feed_name")])
NewsBlank ==
    Store("items" :>
            [columns |-> <<"title">>,
             rows |-> <<Row1("title", <<"c">>), Row1("title", <<>>),
                        Row1("title", <<" ">>), ("title" :> PyNone)>>])
NewsBlankLabelled ==
    Store("news_items" :>
            [columns |-> <<"title", "source_name">>,
             rows |-> <<Row2("title", <<>>, "source_name", <<"s">>),
                        (("title" :> PyNone) @@ ("source_name" :> PyStr(<<"s">>))),
                        (("title" :> PyStr(<<"a">>)) @@ ("source_name" :> PyNone))>>])
NewsNoRows ==
    Store("news_items" :> [columns |-> <<"title", "source_name">>, rows |-> <<>>])
NewsNoCandidate ==
    Store("meta" :> [columns |-> <<"title">>, rows |-> <<Row1("title", <<"m">>)>>])

RssMany ==
    Store("rss_items" :> [columns |-> <<"title">>, rows |-> BareRows(ManyRows, "r")])
RssItemsFirst ==
    Store(("titles" :>
            [columns |-> <<"title">>, rows |-> BareRows(1, "t")])
          @@ ("items" :>
            [columns |-> <<"title", "feed_name">>,
             rows |-> LabelledRows(2, "i", "feed_name")]))
RssBlank ==
    Store("rss_items" :>
            [columns |-> <<"title", "feed_name">>,
             rows |-> <<Row2("title", <<" ">>, "feed_name", <<>>),
                        Row2("title", <<"r">>, "feed_name", <<"f">>)>>])

NewsFiles ==
    { NoStore, BrokenStore, NewsLabelled, NewsBare, NewsMany, NewsShadowed,
      NewsSecond, NewsFeedLabel, NewsBlank, NewsBlankLabelled, NewsNoRows,
      NewsNoCandidate }
RssFiles ==
    { NoStore, BrokenStore, RssLabelled, RssNoTitle, RssMany, RssItemsFirst,
      RssBlank }

\* Cache files of more kinds: records of the older shape, complete and with
\* a field that is no text, a result that is no object, a full_analysis that
\* is no text or holds escaped characters, and a file cut short.
ProjectorCaches ==
    InitCaches \cup
    { Garbled(3),
      Record(("last_analysis" :> Stamp(isoformat(1)))
             @@ ("result" :> JObj(("core_trends" :> JStr(<<"t">>))
                                  @@ ("sentiment_controversy" :> JStr(<<"s">>))
                                  @@ ("outlook_strategy" :> JStr(<<"o">>))))),
      Record(("last_analysis" :> Stamp(isoformat(1)))
             @@ ("result" :> JObj(("core_trends" :> JNull)
                                  @@ ("outlook_strategy" :> JStr(<<"o">>))))),
      Record(("last_analysis" :> Stamp(isoformat(1)))
             @@ ("result" :> JObj("error" :> JStr(<<"e">>)))),
      Record(("last_analysis" :> Stamp(isoformat(1))) @@ ("result" :> JOther)),
      Record(("last_analysis" :> Stamp(isoformat(0)))
             @@ ("result" :> JObj("full_analysis" :> JNull))),
      Record(("last_analysis" :> Stamp(isoformat(1)))
             @@ ("result" :> FullResult(<<"a", NewlineCh, QuoteCh, BackslashCh>>))),
      Record("last_analysis" :> Stamp(isoformat(1))) }

\* One invocation up to the engine call, or up to the projection when
\* analyze() returns before it, on any of these store files (and no cache
\* file) or on any of these cache files (and no store file).
InitInputs ==
    /\ now = 1
    /\ \/ /\ cacheFile = NoFile
          /\ newsStore \in NewsFiles
          /\ rssStore \in RssFiles
       \/ /\ cacheFile \in ProjectorCaches
          /\ newsStore = NoStore
          /\ rssStore = NoStore
    /\ pc = [p \in Procs |-> "idle"]
    /\ frame = [p \in Procs |-> InitFrame]
    /\ last = NoLast
    /\ runs = 0
    /\ engineCallsToday = 0
    /\ engineOKToday = 0

NextInputs ==
    \E p \in Procs :
        \/ Start(p)
        \/ Gate(p)
        \/ Collect(p)
        \/ Setup(p)
        \/ Project(p)

SpecInputs == InitInputs /\ [][NextInputs]_vars

\* ------------------------------------------------ overlapping invocations

\* Nothing keeps a second process from running the job while the first is
\* still in push_analysis(): any idle process may enter at any time.  The
\* invocations looked at overlap within one calendar day, on a cache file
\* that is absent, empty, or yesterday's or today's record.
InitConc ==
    /\ Init
    /\ cacheFile \in
          { NoFile, InvalidBytes,
            Record(("last_analysis" :> Stamp(isoformat(0))) @@ ("result" :> FullResult(<<"y">>))),
            Record(("last_analysis" :> Stamp(isoformat(1))) @@ ("result" :> FullResult(<<"a">>))) }
    /\ newsStore \in {NoStore, NewsLabelled}

NextConc ==
    \E p \in Procs :
        \/ Enter(p)
        \/ Gate(p)
        \/ Collect(p)
        \/ Setup(p)
        \/ Call(p)
        \/ CommitOpen(p)
        \/ CommitDump(p)
        \/ Project(p)
        \/ MkDispatcher(p)
        \/ Dispatch(p)
        \/ Finish(p)

SpecConc == InitConc /\ [][NextConc]_vars

\* ------------------------------------------------- exceptions not handled

\* Lines 184-190 stand outside every try: AIAnalyzer(...) or the read of
\* prompt.txt raises, and the exception leaves analyze() and push_analysis().
SetupRaises(p) ==
    /\ pc[p] = "setup"
    /\ \E site \in {"AIAnalyzer", "prompt.txt"} :
         frame' = [frame EXCEPT ![p].raisedAt = Some(site)]
    /\ pc' = [pc EXCEPT ![p] = "raised"]
    /\ UNCHANGED <<now, cacheFile, newsStore, rssStore, last, runs,
                   engineCallsToday, engineOKToday>>

\* Line 251 raises (the file cannot be opened for writing): caught at 259,
\* the file is as it was and analyze() returns None.
CommitOpenFails(p) ==
    /\ pc[p] = "commit"
    /\ pc' = [pc EXCEPT ![p] = "project"]
    /\ UNCHANGED <<now, cacheFile, newsStore, rssStore, frame, last, runs,
                   engineCallsToday, engineOKToday>>

\* Line 252 raises after the file was emptied: caught at 259, the file stays
\* partly written and analyze() returns None.
CommitDumpFails(p) ==
    /\ pc[p] = "dump"
    /\ pc' = [pc EXCEPT ![p] = "project"]
    /\ UNCHANGED <<now, cacheFile, newsStore, rssStore, frame, last, runs,
                   engineCallsToday, engineOKToday>>

\* Line 329 stands outside the try of 340: create_notification_dispatcher()
\* raises, and the exception leaves push_analysis().
MkDispatcherRaises(p) ==
    /\ pc[p] = "mkdisp"
    /\ frame' = [frame EXCEPT ![p].raisedAt = Some("create_notification_dispatcher")]
    /\ pc' = [pc EXCEPT ![p] = "raised"]
    /\ UNCHANGED <<now, cacheFile, newsStore, rssStore, last, runs,
                   engineCallsToday, engineOKToday>>

NextFaults ==
    \/ Next
    \/ \E p \in Procs :
         \/ SetupRaises(p)
         \/ CommitOpenFails(p)
         \/ CommitDumpFails(p)
         \/ MkDispatcherRaises(p)

\* The job where, besides the engine call and dispatch_all, the steps around
\* them may fail too.
SpecFaults == Init /\ [][NextFaults]_vars

\* ------------------------------------------------------------- properties

\* The invocation of process p and the one that returned before it both ran
\* within the current calendar day.
SameDayAsLast(p) ==
    /\ last.valid
    /\ last.startDay = now
    /\ last.endDay = now
    /\ frame[p].startDay = now

\* The text a record built by analyze() holds as full_analysis.
FullAnalysisOf(record) == record.d["result"].d["full_analysis"].s

\* hay contains needle as a contiguous part.
Carries(hay, needle) ==
    \E i \in 1..(Len(hay) + 1) :
        /\ i + Len(needle) - 1 <= Len(hay)
        /\ SubSeq(hay, i, i + Len(needle) - 1) = needle

\* C1 as stated: over any sequence of invocations within one calendar day the
\* engine's analyze() is called at most once in that day.
C1_AtMostOneEngineCallPerDay == engineCallsToday <= 1

\* C1 amended: within one calendar day, once the cache file holds a record
\* stamped that day (a successful call's record was committed), no later
\* engine call is made and the record is not rewritten that day; calls that
\* fail, or whose record is not written, may be repeated by later invocations.
C1_NoEngineCallAfterCommit ==
    [][StampDayOf(cacheFile) = now =>
          /\ engineCallsToday' <= engineCallsToday
          /\ now' = now => cacheFile' = cacheFile]_vars

\* C1 witness: a second invocation of the day has called the engine again
\* after a failed call, and this time the call succeeded.
C1_Witness ==
    /\ engineCallsToday = 2
    /\ engineOKToday = 1
    /\ SameDayAsLast(Scheduled)
    /\ last.engineFailed

\* C2: two sequential runs of push_analysis() on one calendar day, the first
\* with a successful engine call: the engine is invoked exactly once and
\* dispatch_all is called exactly twice across both runs.
C2_TwoRunsOneCallTwoDispatches ==
    \A p \in Procs :
        (pc[p] = "done" /\ SameDayAsLast(p) /\ last.engineOK)
            => /\ last.engineCalls + frame[p].engineCalls = 1
               /\ last.dispatchCalls + frame[p].dispatchCalls = 2

\* C2 witness: the second run of the day is done after a first run whose
\* engine call succeeded.
C2_Witness ==
    \E p \in Procs :
        /\ pc[p] = "done"
        /\ SameDayAsLast(p)
        /\ last.engineOK
        /\ frame[p].dispatchCalls = 1

\* C3: has_analyzed_today() returns true exactly when the cache file exists,
\* parses as a record and the date of its last_analysis equals the current
\* date; in every other state of the file it returns false; it always returns.
C3_GateExact ==
    \A p \in Procs :
        /\ ~IsNone(frame[p].gate) =>
              /\ ~IsNone(frame[p].entryFile)
              /\ Val(frame[p].gate) \in BOOLEAN
              /\ Val(frame[p].gate)
                   = (StampDayOf(Val(frame[p].entryFile)) = frame[p].gateDay)
        /\ pc[p] \in {"collect", "setup", "call", "commit", "dump"}
              => frame[p].gate = Some(FALSE)

\* C3 witness: the gate answered true on the record an earlier run of the
\* day committed.
C3_Witness ==
    \E p \in Procs :
        /\ frame[p].gate = Some(TRUE)
        /\ last.valid /\ last.engineOK
        /\ Val(frame[p].entryFile).kind = "json"

\* C4: when the engine call fails (success false, or an exception) analyze()
\* returns None and leaves the cache file as it found it; the next invocation
\* of the same day, with a non-empty corpus, calls the engine again.
C4_FailureIsRetried ==
    \A p \in Procs :
        /\ (pc[p] = "project" /\ frame[p].engineFailed)
              => /\ IsNone(frame[p].analysis_data)
                 /\ cacheFile = Val(frame[p].entryFile)
        /\ (/\ pc[p] \in {"project", "mkdisp", "dispatch", "done"}
            /\ SameDayAsLast(p)
            /\ last.engineFailed
            /\ get_today_data(newsStore, rssStore) # <<>>)
              => frame[p].engineCalls = 1

\* C4 witness: after a run whose engine call failed, the next run of the day
\* has called the engine again and analyze() has returned.
C4_Witness ==
    \E p \in Procs :
        /\ pc[p] = "project"
        /\ SameDayAsLast(p)
        /\ last.engineFailed
        /\ frame[p].engineCalls = 1
        /\ frame[p].engineFailed

\* C5: with an empty corpus (both store files absent in particular) analyze()
\* returns None, does not call the engine and leaves the cache file as it is.
C5_EmptyCorpusNoEffect ==
    \A p \in Procs :
        /\ (pc[p] = "project" /\ frame[p].content = Some(<<>>))
              => /\ IsNone(frame[p].analysis_data)
                 /\ frame[p].engineCalls = 0
                 /\ IsNone(frame[p].engineInput)
                 /\ cacheFile = Val(frame[p].entryFile)
        /\ (/\ ~IsNone(frame[p].content)
            /\ frame[p].dataDay = now
            /\ ~newsStore.exists /\ ~rssStore.exists)
              => frame[p].content = Some(<<>>)

\* C5 witness: analyze() has returned on an empty corpus with both store
\* files absent and no cache file.
C5_Witness ==
    \E p \in Procs :
        /\ pc[p] = "project"
        /\ frame[p].content = Some(<<>>)
        /\ ~newsStore.exists /\ ~rssStore.exists
        /\ cacheFile = NoFile

\* C6 as stated: push_analysis() returns true if and only if dispatch_all was
\* called, whatever the outcome of the dispatch.
C6_TrueIffDispatchAttempted ==
    \A p \in Procs :
        pc[p] = "done" => (frame[p].ret = Some(TRUE) <=> frame[p].dispatchCalls >= 1)

\* C6 amended: push_analysis() returns true if and only if dispatch_all was
\* called and returned; it returns false when no dispatch was attempted and
\* when dispatch_all raised.
C6_TrueIffDispatchReturned ==
    \A p \in Procs :
        pc[p] = "done" =>
            /\ ~IsNone(frame[p].ret)
            /\ Val(frame[p].ret)
                 = (frame[p].dispatchCalls = 1 /\ frame[p].dispatchOK)

\* C6 witness: dispatch_all was called and raised, and push_analysis()
\* returned False.
C6_Witness ==
    \E p \in Procs :
        /\ pc[p] = "done"
        /\ frame[p].dispatchCalls = 1
        /\ ~frame[p].dispatchOK
        /\ frame[p].ret = Some(FALSE)

\* C7: a record whose last_analysis date is before the current day is never
\* reused: no payload handed to dispatch_all was projected from such a record.
C7_NoStaleRecordDispatched ==
    \A p \in Procs :
        (~IsNone(frame[p].dispatchArgs) /\ frame[p].startDay = now)
            => ~(frame[p].srcDay >= 0 /\ frame[p].srcDay < now)

\* C8: whenever analyze() invokes the engine, the input handed to it (the
\* sole title of the stats structure) carries the truncated corpus text.
C8_EngineInputCarriesCorpus ==
    \A p \in Procs :
        ~IsNone(frame[p].engineInput)
            => Carries(Val(frame[p].engineInput).stats[1].titles[1].title,
                       Val(frame[p].content_str))

\* C9: after analyze() has committed a record with full_analysis T,
\* generate_standalone_data() returns a payload whose single title is T.
C9_RoundTrip ==
    \A p \in Procs :
        (pc[p] \in {"mkdisp", "dispatch", "done"} /\ ~IsNone(frame[p].analysis_data))
            => /\ ~IsNone(frame[p].standalone_data)
               /\ LET payload == Val(frame[p].standalone_data)
                  IN  /\ Len(payload.platforms) = 1
                      /\ Len(payload.platforms[1].titles) = 1
                      /\ payload.platforms[1].titles[1].title
                           = PyStr(FullAnalysisOf(Val(frame[p].analysis_data)))

\* C9 witness: a committed text with a backslash before an n has been
\* projected.
C9_Witness ==
    \E p \in Procs :
        /\ pc[p] = "mkdisp"
        /\ ~IsNone(frame[p].analysis_data)
        /\ FullAnalysisOf(Val(frame[p].analysis_data)) = <<BackslashCh, "n">>
        /\ ~IsNone(frame[p].standalone_data)

\* C10: whatever steps fail, push_analysis() returns a boolean and never
\* lets an exception out.
C10_NeverPropagates ==
    \A p \in Procs :
        /\ pc[p] # "raised"
        /\ pc[p] = "done" => (~IsNone(frame[p].ret) /\ Val(frame[p].ret) \in BOOLEAN)

\* C11: two invocations of push_analysis() overlapping on one day call the
\* engine at most once each, and once both are through with at least one
\* engine success the cache file holds a valid record stamped today, so that
\* the gate of every later invocation of the day answers true.
C11_RerunBoundedNoStarvation ==
    /\ \A p \in Procs : frame[p].engineCalls <= 1
    /\ ((\A p \in Procs : pc[p] = "done") /\ (\E p \in Procs : frame[p].engineOK))
          => /\ StampDayOf(cacheFile) = now
             /\ has_analyzed_today(cacheFile, now)

\* The steps of analyze() process p stands in.
InAnalyze(p) == pc[p] \in {"gate", "collect", "setup", "call", "commit", "dump"}

\* C12: within every invocation of analyze() the steps come in the order gate
\* check, aggregation, engine call, cache write: the engine is called only
\* after the gate answered false and the corpus was collected, and the cache
\* file is written only by an invocation whose own engine call has returned
\* success; nothing writes it before or without one.
C12_StepsInOrder ==
    /\ [](\A p \in Procs :
            /\ pc[p] \in {"collect", "setup", "call", "commit", "dump"}
                  => frame[p].gate = Some(FALSE)
            /\ pc[p] \in {"setup", "call", "commit", "dump"}
                  => ~IsNone(frame[p].content)
            /\ pc[p] \in {"gate", "collect", "setup", "call"}
                  => (frame[p].engineCalls = 0 /\ IsNone(frame[p].record))
            /\ pc[p] \in {"commit", "dump"}
                  => /\ frame[p].engineCalls = 1
                     /\ frame[p].engineOK
                     /\ Val(frame[p].result).success
                     /\ ~Val(frame[p].result).raised)
    /\ [][\A p \in Procs :
            frame'[p].engineCalls > frame[p].engineCalls
               => /\ frame[p].gate = Some(FALSE)
                  /\ ~IsNone(frame[p].content)
                  /\ frame[p].dataDay >= frame[p].gateDay]_vars
    /\ [][cacheFile' # cacheFile
            => \E p \in Procs :
                  /\ pc[p] \in {"commit", "dump"}
                  /\ frame[p].engineOK
                  /\ pc'[p] # pc[p]]_vars

\* C12 witness: analyze() has written the cache file after its engine call
\* returned success.
C12_Witness ==
    \E p \in Procs :
        /\ pc[p] = "project"
        /\ frame[p].engineOK
        /\ ~IsNone(frame[p].analysis_data)
        /\ cacheFile = JsonFile(json_dump(Val(frame[p].analysis_data)))

\* The candidate table of a store file the reader is to use: the first of
\* the candidates, in their order, that the file contains.
ProbedAt(store, candidates) ==
    {i \in 1..Len(candidates) :
        /\ candidates[i] \in DOMAIN store.tables
        /\ \A j \in 1..(i - 1) : candidates[j] \notin DOMAIN store.tables}

\* The rows a store file is to contribute, in row order: those of the probed
\* table when it has a title column, none otherwise.
SourceRows(store, candidates) ==
    IF ~store.exists \/ ~store.valid \/ ProbedAt(store, candidates) = {}
    THEN <<>>
    ELSE LET t == store.tables[candidates[CHOOSE i \in ProbedAt(store, candidates) : TRUE]]
         IN  IF \E c \in 1..Len(t.columns) : t.columns[c] = "title"
             THEN t.rows ELSE <<>>

\* text ends with tail.
EndsWith(text, tail) ==
    /\ Len(tail) <= Len(text)
    /\ SubSeq(text, Len(text) - Len(tail) + 1, Len(text)) = tail

\* The lines of a text block: the pieces between its newlines.
SplitLines(text) ==
    LET P == {i \in 1..Len(text) : text[i] = NewlineCh}
        n == Cardinality(P)
        pos(k) == IF k = 0 THEN 0
                  ELSE IF k = n + 1 THEN Len(text) + 1
                  ELSE CHOOSE i \in P : Cardinality({j \in P : j < i}) = k - 1
    IN  [k \in 1..(n + 1) |-> SubSeq(text, pos(k - 1) + 1, pos(k) - 1)]

\* The corpus process p holds is the one of the store files as they are now.
HoldsCorpus(p) == ~IsNone(frame[p].content) /\ frame[p].dataDay = now

\* C13: for a corpus of n lines the text block analyze() builds consists of
\* exactly the first min(n, 100) lines of the corpus in their order; the
\* corpus is every news-store line in row order followed by every RSS-store
\* line in row order, and get_today_data() leaves none out.
C13_PrefixOfCorpus ==
    \A p \in Procs :
        /\ HoldsCorpus(p) =>
             LET content == Val(frame[p].content)
                 news == SourceRows(newsStore, NewsTables)
                 rss == SourceRows(rssStore, RssTables)
             IN  /\ Len(content) = Len(news) + Len(rss)
                 /\ \A i \in 1..Len(news) :
                        EndsWith(content[i], Format(news[i]["title"]))
                 /\ \A i \in 1..Len(rss) :
                        EndsWith(content[Len(news) + i], Format(rss[i]["title"]))
        /\ ~IsNone(frame[p].content_str) =>
             LET content == Val(frame[p].content)
                 n == Len(content)
                 k == IF n < 100 THEN n ELSE 100
                 lines == SplitLines(Val(frame[p].content_str))
             IN  /\ Len(lines) = k
                 /\ \A i \in 1..k : lines[i] = content[i]

\* C13 witness: a text block has been built from a corpus of more than 100
\* lines that come from both stores.
C13_Witness ==
    \E p \in Procs :
        /\ ~IsNone(frame[p].content_str)
        /\ Len(Val(frame[p].content)) > 100
        /\ newsStore = NewsSecond
        /\ rssStore = RssMany

\* The line a row is to become: "[label] title" when the table has the
\* store's label column, the bare title otherwise.
LineOfRow(row, label_col) ==
    IF label_col \in DOMAIN row
    THEN <<"[">> \o Format(row[label_col]) \o <<"]", " ">> \o Format(row["title"])
    ELSE Format(row["title"])

\* The lines a store file is to contribute.
LinesOfStore(store, candidates, label_col) ==
    LET rows == SourceRows(store, candidates)
    IN  [i \in 1..Len(rows) |-> LineOfRow(rows[i], label_col)]

\* C14: the lines of each store come from exactly one table, the first
\* candidate in the fixed order (news: news_items, titles, news, items; RSS:
\* rss_items, items, titles) whose probe succeeds; failing candidates are
\* skipped, later ones never contribute, and the lines are "[label] title" in
\* row order with the label column, the bare title without it, and none when
\* the probed table has no title column or no candidate can be probed.
C14_FirstProbedTableOnly ==
    \A p \in Procs :
        HoldsCorpus(p) =>
            Val(frame[p].content)
                = LinesOfStore(newsStore,
                               <<"news_items", "titles", "news", "items">>,
                               "source_name")
                  \o LinesOfStore(rssStore,
                                  <<"rss_items", "items", "titles">>,
                                  "feed_name")

\* C14 witness: the corpus was read from a news file whose first two
\* candidates are absent and whose last two are both present, and from an RSS
\* file holding its second and third candidate.
C14_Witness ==
    \E p \in Procs :
        /\ HoldsCorpus(p)
        /\ newsStore = NewsSecond
        /\ rssStore = RssItemsFirst
        /\ Len(Val(frame[p].content)) = 4

\* str.strip(): the text without its leading and trailing white space.
RECURSIVE strip(_)
strip(text) ==
    IF text = <<>> THEN <<>>
    ELSE IF Head(text) \in {" ", NewlineCh} THEN strip(Tail(text))
    ELSE IF text[Len(text)] \in {" ", NewlineCh}
         THEN strip(SubSeq(text, 1, Len(text) - 1))
    ELSE text

\* C15: every line of the corpus get_today_data() returns is non-empty after
\* trimming, whatever the rows hold (titles that are empty, blank or NULL, in
\* tables with and without a label column).
C15_LinesNonEmpty ==
    \A p \in Procs :
        ~IsNone(frame[p].content)
            => \A i \in 1..Len(Val(frame[p].content)) :
                   strip(Val(frame[p].content)[i]) # <<>>

\* The value json.load gives for the cache file is a dict.
IsRecordFile(file) == ReadCache(file).ok /\ ReadCache(file).v.t = "dict"

\* The `result` member of a record file is missing or empty.
ResultMissingOrEmpty(file) ==
    \/ "result" \notin DOMAIN ReadCache(file).v.d
    \/ ~Truthy(ReadCache(file).v.d["result"])

\* The text of a field of `result`: empty when the field is not there.
FieldText(result, field) ==
    IF result.t = "dict" /\ field \in DOMAIN result.d /\ result.d[field].t = "str"
    THEN result.d[field].s
    ELSE <<>>

\* The title the payload is to carry: full_analysis when present, else the
\* three legacy fields joined with blank lines.
TitleOf(result) ==
    IF result.t = "dict" /\ "full_analysis" \in DOMAIN result.d
    THEN result.d["full_analysis"]
    ELSE PyStr(FieldText(result, "core_trends") \o <<NewlineCh, NewlineCh>>
               \o FieldText(result, "sentiment_controversy") \o <<NewlineCh, NewlineCh>>
               \o FieldText(result, "outlook_strategy"))

\* A payload with one platform entry, no rss feed and one title of rank 1.
IsPayloadWith(payload, title) ==
    /\ Len(payload.platforms) = 1
    /\ payload.rss_feeds = <<>>
    /\ Len(payload.platforms[1].titles) = 1
    /\ payload.platforms[1].titles[1].rank = 1
    /\ payload.platforms[1].titles[1].title = title

\* generate_standalone_data() has returned in process p and the cache file is
\* as it read it.
Projected(p) == pc[p] \in {"mkdisp", "dispatch", "done"}

\* `result` is text, a list or a number, or a legacy field of it is no text:
\* lines 293-301 raise and line 310 catches.
ResultUnusable(result) ==
    \/ result.t # "dict"
    \/ /\ "full_analysis" \notin DOMAIN result.d
       /\ \E f \in {"core_trends", "sentiment_controversy", "outlook_strategy"} :
              f \in DOMAIN result.d /\ result.d[f].t # "str"

C17_AnalyzeProjectDispatch ==
    /\ [](\A p \in Procs :
            /\ InAnalyze(p)
                  => /\ IsNone(frame[p].standalone_data)
                     /\ frame[p].dispatchCalls = 0
            /\ pc[p] \in {"mkdisp", "dispatch"}
                  => /\ ~IsNone(frame[p].standalone_data)
                     /\ frame[p].dispatchCalls = 0
            /\ pc[p] = "done"
                  => IF IsNone(frame[p].standalone_data)
                     THEN /\ frame[p].ret = Some(FALSE)
                          /\ frame[p].dispatchCalls = 0
                          /\ IsNone(frame[p].dispatchArgs)
                     ELSE /\ frame[p].dispatchCalls = 1
                          /\ LET args == Val(frame[p].dispatchArgs)
                             IN  /\ args.report_data.stats = <<>>
                                 /\ args.report_data.failed_ids = <<>>
                                 /\ DOMAIN args.report_data.new_titles = {}
                                 /\ DOMAIN args.report_data.id_to_name = {}
                                 /\ args.standalone_data = frame[p].standalone_data)
    /\ [][\A p \in Procs :
            /\ (pc'[p] = "gate" /\ pc[p] # "gate") => pc[p] = "idle"
            /\ (InAnalyze(p) /\ pc'[p] \notin {"gate", "collect", "setup", "call",
                                              "commit", "dump"})
                  => pc'[p] = "project"
            /\ (pc'[p] = "project" /\ pc[p] # "project") => InAnalyze(p)
            /\ (pc[p] = "project" /\ pc'[p] # "project")
                  => /\ frame'[p].standalone_data
                          = generate_standalone_data(cacheFile, now)
                     /\ pc'[p] = IF IsNone(frame'[p].standalone_data)
                                 THEN "done" ELSE "mkdisp"
            /\ (pc'[p] \in {"mkdisp", "dispatch"} /\ pc[p] # pc'[p])
                  => pc[p] \in {"project", "mkdisp"}]_vars

\* C17 witness: analyze() returned None on a gate that answered true, the
\* record was projected all the same and dispatch_all was called once.
C17_Witness ==
    \E p \in Procs :
        /\ pc[p] = "done"
        /\ IsNone(frame[p].analysis_data)
        /\ frame[p].engineCalls = 0
        /\ frame[p].srcDay = now
        /\ frame[p].dispatchCalls = 1

\* A cache file that is there but holds no record with a readable date.
Corrupt(file) == file.kind # "missing" /\ StampDayOf(file) < 0

\* C18: a corrupt cache file never makes analyze() skip the analysis, and an
\* invocation that found it corrupt, had a non-empty corpus and a successful
\* engine call leaves a valid record stamped with the day of the write, on
\* which has_analyzed_today() then answers true.
C18_CorruptCacheRecovered ==
    \A p \in Procs :
        (~IsNone(frame[p].entryFile) /\ Corrupt(Val(frame[p].entryFile)))
            => /\ frame[p].gate = Some(FALSE)
               /\ pc[p] # "project" \/ ~IsNone(frame[p].content)
               /\ (pc[p] = "project" /\ frame[p].engineOK)
                     => /\ ~IsNone(frame[p].analysis_data)
                        /\ cacheFile = JsonFile(json_dump(Val(frame[p].analysis_data)))
                        /\ IsRecordFile(cacheFile)
                        /\ StampDayOf(cacheFile) = frame[p].stampDay
                        /\ has_analyzed_today(cacheFile, frame[p].stampDay)
                        /\ frame[p].stampDay = now
                              => has_analyzed_today(cacheFile, now)

\* C18 witness: analyze() found a file cut short, and has replaced it by a
\* record of today.
C18_Witness ==
    \E p \in Procs :
        /\ pc[p] = "project"
        /\ frame[p].entryFile = Some(InvalidBytes)
        /\ frame[p].engineOK
        /\ has_analyzed_today(cacheFile, now)

\* C19: analyze() is the only writer of the cache file and the only caller of
\* the engine: the steps of has_analyzed_today(), get_today_data(),
\* generate_standalone_data() and of the dispatch leave the cache file as it
\* is and call no engine, and no step of the job changes a store file.
C19_OnlyAnalyzeWritesAndCalls ==
    [][/\ cacheFile' # cacheFile
            => \E p \in Procs : pc[p] \in {"commit", "dump"} /\ pc'[p] # pc[p]
       /\ (\/ engineCallsToday' > engineCallsToday
           \/ \E p \in Procs : frame'[p].engineCalls > frame[p].engineCalls)
            => \E p \in Procs : pc[p] = "call" /\ pc'[p] # pc[p]
       /\ \A p \in Procs :
            (pc[p] \in {"gate", "collect", "project", "mkdisp", "dispatch"}
                 /\ pc'[p] # pc[p])
               => /\ cacheFile' = cacheFile
                  /\ engineCallsToday' = engineCallsToday
                  /\ frame'[p].engineCalls = frame[p].engineCalls
       /\ (newsStore' # newsStore \/ rssStore' # rssStore)
            => (pc' = pc /\ now' # now)]_vars

\* C19 witness: the record analyze() wrote is still the cache file after it
\* was projected and dispatched.
C19_Witness ==
    \E p \in Procs :
        /\ pc[p] = "done"
        /\ frame[p].dispatchCalls = 1
        /\ frame[p].engineCalls = 1
        /\ ~IsNone(frame[p].analysis_data)
        /\ cacheFile = JsonFile(json_dump(Val(frame[p].analysis_data)))

\* C20: every record analyze() commits is stamped with the calendar date
\* against which the gate was checked and whose store files were aggregated
\* in that invocation, also when the clock passes midnight in between.
C20_StampIsDayOfData ==
    \A p \in Procs :
        ~IsNone(frame[p].record)
            => /\ frame[p].stampDay = frame[p].dataDay
               /\ frame[p].stampDay = frame[p].gateDay

====
